---------------------------- MODULE Spec2Model ----------------------------
(***************************************************************************)
(* A model of the two conversion scripts of web/geotiff_data:              *)
(*                                                                         *)
(*   hgt_to_geotiff.py    SRTM HGT tile  -> georeferenced raster           *)
(*   dem_to_heightmap.py  raster         -> 8-bit grayscale heightmap      *)
(*                                                                         *)
(* Each script is one straight-line function.  A run is modelled as the    *)
(* sequence of its statement groups  (one action per group), so that the   *)
(* place where an exception leaves the function and the order of the side  *)
(* effects (destination file, console) are visible.                        *)
(*                                                                         *)
(* Strings are sequences of one-character strings.  Arrays of 16-bit       *)
(* samples are kept as numpy keeps them: a byte order and the two bytes of *)
(* every item in memory order, so that decoding and the conversion to the  *)
(* host's byte order are computed, not assumed.  Floating point values     *)
(* are exact fractions [num, den]; the places where the code's result is   *)
(* an undefined float -> uint8 cast are nondeterministic.                  *)
(***************************************************************************)
EXTENDS Integers, Sequences, FiniteSets, TLC

VARIABLES
    prog,          \* which script runs: "hgt" or "dem"
    pc,            \* the statement group the run is at
    err,           \* the Python exception that left the function, or "none"
    errAt,         \* the statement group that raised it, or "none"
    trace,         \* the statement groups completed so far, in order
    dest,          \* the output file: "absent", "partial" or "written"
    printed,       \* the success message has been printed
    warnings,      \* numpy RuntimeWarnings issued so far
    \* ---- hgt_to_geotiff
    hgt_file,      \* argument: path of the tile
    fileBytes,     \* contents of that file
    hostOrder,     \* byte order of the machine: "little" or "big"
    filename, lat_dir, lat_val, lon_dir, lon_val,
    south, north, west, east,
    data, elevation,
    pixel_width, pixel_height, transform,
    written,       \* the sample values handed to dst.write
    \* ---- dem_to_heightmap
    input_raster,  \* band 1 of the input raster: rows of int16 values
    profile,       \* src.profile, a dictionary
    dem_elevation, \* the local `elevation` of dem_to_heightmap
    nodata, valid_data, min_elev, max_elev, heightmap

hgtVars == <<hgt_file, fileBytes, hostOrder, filename, lat_dir, lat_val,
             lon_dir, lon_val, south, north, west, east, data, elevation,
             pixel_width, pixel_height, transform, written>>
demVars == <<input_raster, profile, dem_elevation, nodata, valid_data,
             min_elev, max_elev, heightmap>>
vars == <<prog, pc, err, errAt, trace, dest, printed, warnings, hgtVars, demVars>>

Null == "null"

-----------------------------------------------------------------------------
(* Bounds of the model.                                                    *)

\* nrows and ncols of the tile; the script fixes both at 3601 (lines 40-41).
TileRows == 2
TileCols == 2
\* The largest number of cells of a raster given to dem_to_heightmap.
MaxCells == 4

-----------------------------------------------------------------------------
(* Python strings.                                                         *)

Digits == {"0", "1", "2", "3", "4", "5", "6", "7", "8", "9"}

DigitVal(ch) ==
    CASE ch = "0" -> 0 [] ch = "1" -> 1 [] ch = "2" -> 2 [] ch = "3" -> 3
      [] ch = "4" -> 4 [] ch = "5" -> 5 [] ch = "6" -> 6 [] ch = "7" -> 7
      [] ch = "8" -> 8 [] ch = "9" -> 9

\* s[a:b] for 0 <= a <= b: slicing never raises, it clamps.
Slice(s, a, b) ==
    LET hi == IF b < Len(s) THEN b ELSE Len(s)
    IN  IF a >= hi THEN <<>> ELSE SubSeq(s, a + 1, hi)

\* s.split('/')[-1]: what follows the last '/'.
RECURSIVE LastSegment(_)
LastSegment(s) ==
    IF \E i \in 1..Len(s) : s[i] = "/"
    THEN LastSegment(Tail(s))
    ELSE s

HgtSuffix == <<".", "h", "g", "t">>

\* s.replace('.hgt', ''): every occurrence, left to right, without rescanning.
RECURSIVE RemoveHgt(_)
RemoveHgt(s) ==
    IF s = <<>> THEN <<>>
    ELSE IF Len(s) >= 4 /\ SubSeq(s, 1, 4) = HgtSuffix
         THEN RemoveHgt(SubSeq(s, 5, Len(s)))
         ELSE <<Head(s)>> \o RemoveHgt(Tail(s))

RECURSIVE DigitsValue(_)
DigitsValue(s) ==
    IF s = <<>> THEN 0
    ELSE 10 * DigitsValue(SubSeq(s, 1, Len(s) - 1)) + DigitVal(s[Len(s)])

AllDigits(s) == s # <<>> /\ \A i \in 1..Len(s) : s[i] \in Digits

\* int(s) for a string without blanks or underscores: an optional sign, then
\* one or more decimal digits; anything else raises ValueError.
PyIntOk(s) ==
    IF s # <<>> /\ s[1] \in {"-", "+"} THEN AllDigits(Tail(s)) ELSE AllDigits(s)

PyInt(s) ==
    IF s[1] = "-" THEN 0 - DigitsValue(Tail(s))
    ELSE IF s[1] = "+" THEN DigitsValue(Tail(s))
    ELSE DigitsValue(s)

-----------------------------------------------------------------------------
(* numpy arrays of 16-bit integers: [order, items], every item the pair of *)
(* its bytes in memory order.  A 1-D array's items is a sequence of pairs, *)
(* a 2-D array's a sequence of rows.                                       *)

Int16FromUnsigned(u) == IF u >= 32768 THEN u - 65536 ELSE u

\* The value numpy reads from an item of an array of the given byte order.
ItemValue(order, item) ==
    IF order = "big"
    THEN Int16FromUnsigned(item[1] * 256 + item[2])
    ELSE Int16FromUnsigned(item[2] * 256 + item[1])

\* The bytes numpy stores for value v in an array of the given byte order.
ItemBytes(order, v) ==
    LET u == IF v < 0 THEN v + 65536 ELSE v
    IN  IF order = "big" THEN <<u \div 256, u % 256>> ELSE <<u % 256, u \div 256>>

\* np.fromfile(hgt_file, dtype='>i2'): as many whole items as the file holds
\* (a trailing odd byte is dropped), kept big-endian.
FromFile(bytes) ==
    [order |-> "big",
     items |-> [i \in 1..(Len(bytes) \div 2) |-> <<bytes[2 * i - 1], bytes[2 * i]>>]]

\* data.reshape((r, c)) raises ValueError unless data.size = r * c.
ReshapeOk(arr, r, c) == Len(arr.items) = r * c

Reshape(arr, r, c) ==
    [order |-> arr.order,
     items |-> [i \in 1..r |-> [j \in 1..c |-> arr.items[(i - 1) * c + j]]]]

\* Flipud without the reversal.
Flipud_kept(arr) == arr

\* np.flipud: the rows in reverse order.
Flipud(arr) ==
    [order |-> arr.order,
     items |-> [i \in 1..Len(arr.items) |-> arr.items[Len(arr.items) + 1 - i]]]

\* arr.astype(np.int16) on a machine of byte order `host`: the same values,
\* stored in the machine's order.
AsTypeInt16(arr, host) ==
    [order |-> host,
     items |-> [i \in 1..Len(arr.items) |->
                  [j \in 1..Len(arr.items[i]) |->
                      ItemBytes(host, ItemValue(arr.order, arr.items[i][j]))]]]

\* The values of a 2-D array, as any reader of the array sees them.
Values(arr) ==
    [i \in 1..Len(arr.items) |->
        [j \in 1..Len(arr.items[i]) |-> ItemValue(arr.order, arr.items[i][j])]]

-----------------------------------------------------------------------------
(* Floating point values as exact fractions, den > 0.                      *)

Frac(n, d) == [num |-> n, den |-> d]
FracOfInt(n) == Frac(n, 1)
FracNeg(x) == Frac(0 - x.num, x.den)
FracAdd(x, y) == Frac(x.num * y.den + y.num * x.den, x.den * y.den)
FracMul(x, y) == Frac(x.num * y.num, x.den * y.den)
FracEq(x, y) == x.num * y.den = y.num * x.den
FracPos(x) == x.num > 0

\* from_origin with the row step not negated.
FromOrigin_upward(w, n, xsize, ysize) ==
    [a |-> xsize,          b |-> FracOfInt(0), c |-> FracOfInt(w),
     d |-> FracOfInt(0),   e |-> ysize,        f |-> FracOfInt(n)]

\* rasterio.transform.from_origin(west, north, xsize, ysize):
\* Affine.translation(west, north) * Affine.scale(xsize, -ysize).
FromOrigin(w, n, xsize, ysize) ==
    [a |-> xsize,          b |-> FracOfInt(0), c |-> FracOfInt(w),
     d |-> FracOfInt(0),   e |-> FracNeg(ysize), f |-> FracOfInt(n)]

\* transform * (col, row)
Apply(t, col, row) ==
    [x |-> FracAdd(FracAdd(FracMul(t.a, FracOfInt(col)), FracMul(t.b, FracOfInt(row))), t.c),
     y |-> FracAdd(FracAdd(FracMul(t.d, FracOfInt(col)), FracMul(t.e, FracOfInt(row))), t.f)]

-----------------------------------------------------------------------------
(* Control flow.  Neither function has a try/except: an exception leaves   *)
(* the function at the statement that raised it.                           *)

\* hgt_to_geotiff with the summary printed before the raster is written.
HgtSteps_printFirst == <<"parse", "bounds", "read", "reshape", "flip", "transform",
                         "print", "write">>

\* hgt_to_geotiff, statement groups in program order.
HgtSteps == <<"parse", "bounds", "read", "reshape", "flip", "transform",
              "write", "print">>

\* dem_to_heightmap, statement groups in program order.
DemSteps == <<"open", "scan", "normalize", "save", "print">>

Steps == IF prog = "hgt" THEN HgtSteps ELSE DemSteps

\* The statement group that follows `step`, "done" after the last.
StepAfter(step) ==
    LET i == CHOOSE k \in 1..Len(Steps) : Steps[k] = step
    IN  IF i = Len(Steps) THEN "done" ELSE Steps[i + 1]

At(p, step) == prog = p /\ pc = step /\ err = "none"

Continue(step) ==
    /\ pc' = StepAfter(step)
    /\ trace' = Append(trace, step)
    /\ UNCHANGED <<prog, err, errAt>>

Raise(step, exc) ==
    /\ pc' = "raised"
    /\ err' = exc
    /\ errAt' = step
    /\ UNCHANGED <<prog, trace>>

-----------------------------------------------------------------------------
(* hgt_to_geotiff(hgt_file, output_file)                                   *)

nrows == TileRows
ncols == TileCols

\* filename = hgt_file.split('/')[-1].replace('.hgt', '')
FileStem(path) == RemoveHgt(LastSegment(path))

\* The first statement of lines 19-22 that raises, with its exception:
\* filename[0] and filename[3] raise IndexError, int() raises ValueError.
ParseError(name) ==
    IF Len(name) < 1 THEN "IndexError"
    ELSE IF ~PyIntOk(Slice(name, 1, 3)) THEN "ValueError"
    ELSE IF Len(name) < 4 THEN "IndexError"
    ELSE IF ~PyIntOk(Slice(name, 4, 7)) THEN "ValueError"
    ELSE "none"

\* South without the hemisphere sign.
South_unsigned(dir, val) == val

\* Lines 25-30.
South(dir, val) == IF dir = "S" THEN 0 - val ELSE val
North(dir, val) == IF dir = "S" THEN (0 - val) + 1 ELSE val + 1
\* Lines 32-37.
West(dir, val) == IF dir = "W" THEN 0 - val ELSE val
East(dir, val) == IF dir = "W" THEN (0 - val) + 1 ELSE val + 1

\* Lines 16-22.
ParseFilename ==
    /\ At("hgt", "parse")
    /\ LET name == FileStem(hgt_file)
           e    == ParseError(name)
       IN  /\ filename' = name
           /\ IF e = "none"
              THEN /\ lat_dir' = name[1]
                   /\ lat_val' = PyInt(Slice(name, 1, 3))
                   /\ lon_dir' = name[4]
                   /\ lon_val' = PyInt(Slice(name, 4, 7))
                   /\ Continue("parse")
              ELSE /\ UNCHANGED <<lat_dir, lat_val, lon_dir, lon_val>>
                   /\ Raise("parse", e)
    /\ UNCHANGED <<dest, printed, warnings, hgt_file, fileBytes, hostOrder,
                   south, north, west, east, data, elevation,
                   pixel_width, pixel_height, transform, written, demVars>>

\* Lines 25-37.
CalcBounds ==
    /\ At("hgt", "bounds")
    /\ south' = South(lat_dir, lat_val)
    /\ north' = North(lat_dir, lat_val)
    /\ west' = West(lon_dir, lon_val)
    /\ east' = East(lon_dir, lon_val)
    /\ Continue("bounds")
    /\ UNCHANGED <<dest, printed, warnings, hgt_file, fileBytes, hostOrder,
                   filename, lat_dir, lat_val, lon_dir, lon_val, data, elevation,
                   pixel_width, pixel_height, transform, written, demVars>>

\* Line 45.
ReadFile ==
    /\ At("hgt", "read")
    /\ data' = FromFile(fileBytes)
    /\ Continue("read")
    /\ UNCHANGED <<dest, printed, warnings, hgt_file, fileBytes, hostOrder,
                   filename, lat_dir, lat_val, lon_dir, lon_val,
                   south, north, west, east, elevation,
                   pixel_width, pixel_height, transform, written, demVars>>

\* Line 48.
ReshapeData ==
    /\ At("hgt", "reshape")
    /\ IF ReshapeOk(data, nrows, ncols)
       THEN /\ elevation' = Reshape(data, nrows, ncols)
            /\ Continue("reshape")
       ELSE /\ UNCHANGED elevation
            /\ Raise("reshape", "ValueError")
    /\ UNCHANGED <<dest, printed, warnings, hgt_file, fileBytes, hostOrder,
                   filename, lat_dir, lat_val, lon_dir, lon_val,
                   south, north, west, east, data,
                   pixel_width, pixel_height, transform, written, demVars>>

\* Lines 51-54.
FlipAndCast ==
    /\ At("hgt", "flip")
    /\ elevation' = AsTypeInt16(Flipud(elevation), hostOrder)
    /\ Continue("flip")
    /\ UNCHANGED <<dest, printed, warnings, hgt_file, fileBytes, hostOrder,
                   filename, lat_dir, lat_val, lon_dir, lon_val,
                   south, north, west, east, data,
                   pixel_width, pixel_height, transform, written, demVars>>

\* Lines 57-58.
PixelWidth(e, w, c) == Frac(e - w, c)
PixelHeight(n, s, r) == Frac(n - s, r)

\* Lines 57-61.
BuildTransform ==
    /\ At("hgt", "transform")
    /\ pixel_width' = PixelWidth(east, west, ncols)
    /\ pixel_height' = PixelHeight(north, south, nrows)
    /\ transform' = FromOrigin(west, north, pixel_width', pixel_height')
    /\ Continue("transform")
    /\ UNCHANGED <<dest, printed, warnings, hgt_file, fileBytes, hostOrder,
                   filename, lat_dir, lat_val, lon_dir, lon_val,
                   south, north, west, east, data, elevation, written, demVars>>

\* Lines 64-78: the destination is created by rasterio.open(..., 'w') and
\* filled by dst.write; the codec may refuse (unwritable destination).
WriteGeoTiff ==
    /\ At("hgt", "write")
    /\ \E ok \in BOOLEAN :
         IF ok
         THEN /\ dest' = "written"
              /\ written' = Values(elevation)
              /\ Continue("write")
         ELSE /\ dest' = "partial"
              /\ UNCHANGED written
              /\ Raise("write", "RasterioIOError")
    /\ UNCHANGED <<printed, warnings, hgt_file, fileBytes, hostOrder,
                   filename, lat_dir, lat_val, lon_dir, lon_val,
                   south, north, west, east, data, elevation,
                   pixel_width, pixel_height, transform, demVars>>

\* Lines 80-83.
PrintSummary ==
    /\ At("hgt", "print")
    /\ printed' = TRUE
    /\ Continue("print")
    /\ UNCHANGED <<dest, warnings, hgtVars, demVars>>

-----------------------------------------------------------------------------
(* dem_to_heightmap(input_file, output_file)                               *)

\* Python values a profile entry can hold.
PyNone == [kind |-> "None"]
Num(v) == [kind |-> "num", val |-> v]

\* dict.get(key, default): the default only when the key is absent.
DictGet(d, key, default) == IF key \in DOMAIN d THEN d[key] ELSE default

\* Line 21.
GetNodata(prof) == DictGet(prof, "nodata", Num(-32768))

\* A comparison that selects every sample.
NotEqual_all(sample, nd) == TRUE

\* numpy's elementwise `sample != nodata`; nothing equals None.
NotEqual(sample, nd) == IF nd.kind = "None" THEN TRUE ELSE sample # nd.val

\* Line 33 (and the selection of line 22).
Mask(elev, nd) ==
    [i \in 1..Len(elev) |-> [j \in 1..Len(elev[i]) |-> NotEqual(elev[i][j], nd)]]

RECURSIVE Flatten(_)
Flatten(rows) == IF rows = <<>> THEN <<>> ELSE Head(rows) \o Flatten(Tail(rows))

\* elevation[elevation != nodata]: the selected samples in row-major order.
Selected(elev, nd) == SelectSeq(Flatten(elev), LAMBDA v : NotEqual(v, nd))

SeqMin(q) == CHOOSE v \in {q[i] : i \in 1..Len(q)} : \A k \in 1..Len(q) : v <= q[k]
SeqMax(q) == CHOOSE v \in {q[i] : i \in 1..Len(q)} : \A k \in 1..Len(q) : v >= q[k]

\* int16 arithmetic keeps 16 bits.
Wrap16(x) == ((x + 32768) % 65536) - 32768

\* elevation[mask] - min_elev: an int16 array minus an int16 scalar is int16.
Numerator(sample, lo) == Wrap16(sample - lo)
\* max_elev - min_elev: int16 scalars.
Denominator(hi, lo) == Wrap16(hi - lo)

\* A float: a fraction, or NaN / infinity (division by zero).
NotFinite == [kind |-> "nan"]
\* (num / den) * 255 in float64; x / 0 is not an error in numpy.
Scaled(num, den) ==
    IF den = 0 THEN NotFinite
    ELSE IF den < 0 THEN [kind |-> "frac", num |-> (0 - num) * 255, den |-> 0 - den]
    ELSE [kind |-> "frac", num |-> num * 255, den |-> den]

\* The integral part of a finite float (C truncates toward zero).
Trunc(x) == IF x.num >= 0 THEN x.num \div x.den ELSE 0 - ((0 - x.num) \div x.den)

\* float64 -> uint8 is defined only when the truncated value is in 0..255.
CastDefined(x) == x.kind = "frac" /\ Trunc(x) >= 0 /\ Trunc(x) <= 255

\* What builds do with an out-of-range value: keep the low byte of the
\* truncated integer, or saturate.
CastModes == {"wrap", "saturate"}
\* What builds produce for NaN: the low byte of the "integer indefinite"
\* (0 for a signed conversion, 255 for an unsigned one).
NaNCasts == {0, 255}

\* .astype(np.uint8) of one element.
CastUint8(x, mode, nanv) ==
    IF CastDefined(x) THEN Trunc(x)
    ELSE IF x.kind = "nan" THEN nanv
    ELSE IF mode = "wrap" THEN Trunc(x) % 256
    ELSE IF Trunc(x) < 0 THEN 0 ELSE 255

\* Lines 30-34: zeros, then the scaled value wherever the mask holds.
Normalized(elev, nd, lo, hi, mode, nanv) ==
    [i \in 1..Len(elev) |->
        [j \in 1..Len(elev[i]) |->
            IF Mask(elev, nd)[i][j]
            THEN CastUint8(Scaled(Numerator(elev[i][j], lo), Denominator(hi, lo)),
                           mode, nanv)
            ELSE 0]]

\* Lines 16-18.
OpenDem ==
    /\ At("dem", "open")
    /\ dem_elevation' = input_raster
    /\ Continue("open")
    /\ UNCHANGED <<dest, printed, warnings, hgtVars, input_raster, profile,
                   nodata, valid_data, min_elev, max_elev, heightmap>>

\* Lines 21-27: min() of an empty selection raises ValueError.
ScanValid ==
    /\ At("dem", "scan")
    /\ nodata' = GetNodata(profile)
    /\ valid_data' = Selected(dem_elevation, nodata')
    /\ IF valid_data' = <<>>
       THEN /\ UNCHANGED <<min_elev, max_elev>>
            /\ Raise("scan", "ValueError")
       ELSE /\ min_elev' = SeqMin(valid_data')
            /\ max_elev' = SeqMax(valid_data')
            /\ Continue("scan")
    /\ UNCHANGED <<dest, printed, warnings, hgtVars, input_raster, profile,
                   dem_elevation, heightmap>>

\* Lines 30-34.
Normalize ==
    /\ At("dem", "normalize")
    /\ \E mode \in CastModes, nanv \in NaNCasts :
         heightmap' = Normalized(dem_elevation, nodata, min_elev, max_elev, mode, nanv)
    /\ warnings' = warnings
         \cup (IF max_elev - min_elev # Denominator(max_elev, min_elev)
               THEN {"overflow encountered in scalar subtract"} ELSE {})
         \cup (IF Denominator(max_elev, min_elev) = 0
               THEN {"invalid value encountered in divide"} ELSE {})
    /\ Continue("normalize")
    /\ UNCHANGED <<dest, printed, hgtVars, input_raster, profile,
                   dem_elevation, nodata, valid_data, min_elev, max_elev>>

\* Lines 37-38: the image is written by img.save; the codec may refuse.
SavePng ==
    /\ At("dem", "save")
    /\ \E ok \in BOOLEAN :
         IF ok
         THEN /\ dest' = "written"
              /\ Continue("save")
         ELSE /\ dest' = "partial"
              /\ Raise("save", "OSError")
    /\ UNCHANGED <<printed, warnings, hgtVars, demVars>>

\* Lines 40-42.
PrintDone ==
    /\ At("dem", "print")
    /\ printed' = TRUE
    /\ Continue("print")
    /\ UNCHANGED <<dest, warnings, hgtVars, demVars>>

-----------------------------------------------------------------------------
(* Inputs.                                                                 *)

LatDigits == {"0", "2", "7", "9"}
LonDigits == {"0", "1", "2", "5"}

\* Every identifier [N|S]dd[E|W]ddd over the digits above.
ValidIds ==
    {<<a, d1, d2, b, d3, d4, d5>> :
        a \in {"N", "S"}, d1 \in LatDigits, d2 \in LatDigits,
        b \in {"E", "W"}, d3 \in LonDigits, d4 \in LonDigits, d5 \in LonDigits}

BaseIds == {<<"S", "2", "7", "E", "1", "5", "2">>,
            <<"N", "0", "0", "W", "0", "0", "1">>}
OtherChars == {"N", "S", "E", "W", "X", "n", "-", "+", "7"}

\* Identifiers one edit away from a valid one: a character replaced, the end
\* cut off, a character appended.
EditedIds ==
    {[b EXCEPT ![i] = ch] : b \in BaseIds, i \in 1..7, ch \in OtherChars}
    \cup {SubSeq(b, 1, n) : b \in BaseIds, n \in 0..6}
    \cup {b \o <<ch>> : b \in BaseIds, ch \in OtherChars}

Dirs == {<<>>, <<"d", "/">>, <<"a", ".", "h", "g", "t", "/">>}
Exts == {<<>>, HgtSuffix}

TilePaths ==
    {id \o HgtSuffix : id \in ValidIds}
    \cup {d \o id \o x : d \in Dirs, id \in EditedIds, x \in Exts}

ByteVals == {0, 1, 255}
BytePairs == ByteVals \X ByteVals

TileBytes == 2 * nrows * ncols

\* The first len bytes of a file whose samples are all `base`, except
\* sample p (if any), which is `special`.
Buffer(len, base, p, special) ==
    [i \in 1..len |->
        LET k == (i + 1) \div 2
            pair == IF k = p THEN special ELSE base
        IN  IF i % 2 = 1 THEN pair[1] ELSE pair[2]]

\* Files from empty to one sample too long, odd lengths included.
Buffers ==
    {Buffer(len, base, p, special) :
        len \in 0..(TileBytes + 2), base \in BytePairs,
        p \in 0..(nrows * ncols + 1), special \in BytePairs}

GoodBuffer == Buffer(TileBytes, <<0, 1>>, 1, <<255, 255>>)

Samples == {-32768, -20000, 0, 100, 200, 20000}

Shapes == {sh \in (1..2) \X (1..MaxCells) : sh[1] * sh[2] <= MaxCells}

Rasters == UNION {[1..sh[1] -> [1..sh[2] -> Samples]] : sh \in Shapes}

\* src.profile: without a nodata key, with the key and no value, with a value.
Profiles ==
    {[driver |-> "GTiff"],
     [driver |-> "GTiff", nodata |-> PyNone],
     [driver |-> "GTiff", nodata |-> Num(-32768)],
     [driver |-> "GTiff", nodata |-> Num(0)]}

-----------------------------------------------------------------------------
(* The state machine.                                                      *)

InitCommon ==
    /\ pc = Steps[1]
    /\ err = "none"
    /\ errAt = "none"
    /\ trace = <<>>
    /\ dest = "absent"
    /\ printed = FALSE
    /\ warnings = {}

InitHgtLocals ==
    /\ filename = Null /\ lat_dir = Null /\ lat_val = Null
    /\ lon_dir = Null /\ lon_val = Null
    /\ south = Null /\ north = Null /\ west = Null /\ east = Null
    /\ data = Null /\ elevation = Null
    /\ pixel_width = Null /\ pixel_height = Null /\ transform = Null
    /\ written = Null

InitDemLocals ==
    /\ dem_elevation = Null /\ nodata = Null /\ valid_data = Null
    /\ min_elev = Null /\ max_elev = Null /\ heightmap = Null

\* hgt_to_geotiff on every tile path, with a well-formed file.
InitHgtNames ==
    /\ prog = "hgt"
    /\ hgt_file \in TilePaths
    /\ fileBytes = GoodBuffer
    /\ hostOrder \in {"little", "big"}
    /\ input_raster = Null /\ profile = Null

\* hgt_to_geotiff on every file, with a well-formed and a malformed path.
InitHgtFiles ==
    /\ prog = "hgt"
    /\ hgt_file \in {<<"S", "2", "7", "E", "1", "5", "2">> \o HgtSuffix,
                     <<"S", "2">> \o HgtSuffix}
    /\ fileBytes \in Buffers
    /\ hostOrder \in {"little", "big"}
    /\ input_raster = Null /\ profile = Null

InitDem ==
    /\ prog = "dem"
    /\ input_raster \in Rasters
    /\ profile \in Profiles
    /\ hgt_file = Null /\ fileBytes = Null /\ hostOrder = Null

Init ==
    /\ InitHgtNames \/ InitHgtFiles \/ InitDem
    /\ InitCommon
    /\ InitHgtLocals
    /\ InitDemLocals

Next ==
    \/ ParseFilename
    \/ CalcBounds
    \/ ReadFile
    \/ ReshapeData
    \/ FlipAndCast
    \/ BuildTransform
    \/ WriteGeoTiff
    \/ PrintSummary
    \/ OpenDem
    \/ ScanValid
    \/ Normalize
    \/ SavePng
    \/ PrintDone

Spec == Init /\ [][Next]_vars

-----------------------------------------------------------------------------
(* Vocabulary of the properties.                                           *)

\* The statement group has completed.
Done(step) == \E i \in 1..Len(trace) : trace[i] = step

\* The error kinds of the design, by the place where the exception is raised.
MalformedIdentifier == err \in {"IndexError", "ValueError"} /\ errAt = "parse"
TruncatedInput == err = "ValueError" /\ errAt = "reshape"
EmptyValidRange == err = "ValueError" /\ errAt = "scan"

\* [N|S]<2-digit lat>[E|W]<3-digit lon>
MatchesPattern(id) ==
    /\ Len(id) = 7
    /\ id[1] \in {"N", "S"}
    /\ id[2] \in Digits /\ id[3] \in Digits
    /\ id[4] \in {"E", "W"}
    /\ id[5] \in Digits /\ id[6] \in Digits /\ id[7] \in Digits

LatOf(id) == 10 * DigitVal(id[2]) + DigitVal(id[3])
LonOf(id) == 100 * DigitVal(id[5]) + 10 * DigitVal(id[6]) + DigitVal(id[7])

ExampleId == <<"S", "2", "7", "E", "1", "5", "2">>

\* The big-endian two's complement value of the byte pair of input row r,
\* column c (both from 1) of the file.
FileSample(r, c) ==
    LET k  == 2 * ((r - 1) * ncols + (c - 1)) + 1
        u  == fileBytes[k] * 256 + fileBytes[k + 1]
    IN  IF u >= 32768 THEN u - 65536 ELSE u

Cells(grid) == {<<i, j>> : i \in 1..Len(grid), j \in 1..Len(grid[1])}

-----------------------------------------------------------------------------
(* Properties.                                                             *)

\* C1: for every identifier [N|S]dd[E|W]ddd the parse succeeds and the bounds
\* are the 1x1 degree box south = -lat if S else lat, north = south + 1,
\* west = -lon if W else lon, east = west + 1.
C1_Bounds ==
    (prog = "hgt" /\ pc # "parse" /\ MatchesPattern(filename)) =>
        /\ errAt # "parse"
        /\ Done("bounds") =>
             /\ south = (IF filename[1] = "S" THEN 0 - LatOf(filename) ELSE LatOf(filename))
             /\ north = south + 1
             /\ west = (IF filename[4] = "W" THEN 0 - LonOf(filename) ELSE LonOf(filename))
             /\ east = west + 1
             /\ east > west /\ north > south

C1_Witness ==
    /\ prog = "hgt" /\ Done("bounds") /\ filename = ExampleId
    /\ south = -27 /\ north = -26 /\ west = 152 /\ east = 153

\* C2 (as claimed): every identifier that does not match the pattern makes
\* the bounds derivation fail with MalformedIdentifier and yield no bounds.
C2_MalformedRejected ==
    (prog = "hgt" /\ pc \notin {"parse", "bounds"} /\ ~MatchesPattern(filename)) =>
        MalformedIdentifier /\ ~Done("bounds")

\* C3: for a file of exactly rows*cols*2 bytes the reshape succeeds and the
\* sample at output row r, column c is the big-endian value of the byte pair
\* at input row rows+1-r, column c, whatever the machine's byte order; the
\* raster written holds the same values.
C3_Decode ==
    (prog = "hgt" /\ Done("read") /\ Len(fileBytes) = 2 * nrows * ncols) =>
        /\ errAt # "reshape"
        /\ Done("flip") =>
             /\ Len(elevation.items) = nrows
             /\ \A r \in 1..nrows :
                  /\ Len(elevation.items[r]) = ncols
                  /\ \A c \in 1..ncols :
                       Values(elevation)[r][c] = FileSample(nrows + 1 - r, c)
        /\ Done("write") => written = Values(elevation)

C3_Witness ==
    /\ prog = "hgt" /\ Done("flip") /\ hostOrder = "little"
    /\ fileBytes = GoodBuffer
    /\ Values(elevation)[nrows][1] = -1
    /\ Values(elevation)[1][1] = 1

\* C4 (as claimed): the decoder fails with TruncatedInput exactly when the
\* file is not rows*cols*2 bytes long.
C4_LengthChecked ==
    (prog = "hgt" /\ Done("read") /\ pc # "reshape") =>
        ((Len(fileBytes) # 2 * nrows * ncols) <=> TruncatedInput)

\* C5 (as claimed): with at least two distinct valid values, every valid
\* sample s maps to floor((s - min) * 255 / (max - min)), min and max over the
\* valid samples, over the whole 16-bit range (stated for the rasters whose
\* nodata is a number).
C5_LinearScale ==
    (prog = "dem" /\ Done("normalize") /\ nodata.kind = "num") =>
        LET valid == {p \in Cells(dem_elevation) :
                         NotEqual(dem_elevation[p[1]][p[2]], nodata)}
            vals  == {dem_elevation[p[1]][p[2]] : p \in valid}
            lo    == CHOOSE v \in vals : \A w \in vals : v <= w
            hi    == CHOOSE v \in vals : \A w \in vals : v >= w
        IN  Cardinality(vals) >= 2 =>
              \A p \in valid :
                 heightmap[p[1]][p[2]] =
                    ((dem_elevation[p[1]][p[2]] - lo) * 255) \div (hi - lo)

\* C6 (as claimed): when all valid samples are equal the run raises nothing,
\* every pixel is 0, and no division by zero is evaluated.
C6_FlatGridZero ==
    (prog = "dem" /\ Done("scan") /\ min_elev = max_elev) =>
        /\ err = "none" \/ errAt = "save"
        /\ "invalid value encountered in divide" \notin warnings
        /\ Done("normalize") =>
             \A p \in Cells(dem_elevation) : heightmap[p[1]][p[2]] = 0

\* C7: when every sample equals the nodata value, the run ends with
\* EmptyValidRange at the valid-range scan: no heightmap is computed and
\* nothing is written.
C7_AllNodata ==
    (/\ prog = "dem" /\ pc \notin {"open", "scan"}
     /\ nodata.kind = "num"
     /\ \A p \in Cells(dem_elevation) : dem_elevation[p[1]][p[2]] = nodata.val) =>
        /\ EmptyValidRange
        /\ pc = "raised"
        /\ ~Done("normalize")
        /\ dest = "absent"
        /\ ~printed

C7_Witness ==
    /\ prog = "dem" /\ EmptyValidRange
    /\ Len(dem_elevation) = 2
    /\ \A p \in Cells(dem_elevation) : dem_elevation[p[1]][p[2]] = 0
    /\ nodata = Num(0)

\* The nodata value the container reports, -32768 when it reports none.
ReportedNodata ==
    IF "nodata" \in DOMAIN profile /\ profile.nodata.kind = "num"
    THEN profile.nodata.val
    ELSE -32768

\* C8 (as claimed): the samples equal to the reported nodata value (-32768
\* when the key is absent or holds no value) are excluded from min_elev and
\* max_elev and get pixel 0; every other pixel lies in 0..255.
C8_NodataHonoured ==
    (prog = "dem" /\ Done("scan")) =>
        LET vals == {dem_elevation[p[1]][p[2]] : p \in Cells(dem_elevation)}
                        \ {ReportedNodata}
        IN  /\ vals # {}
            /\ \A v \in vals : min_elev <= v /\ v <= max_elev
            /\ min_elev \in vals /\ max_elev \in vals
            /\ Done("normalize") =>
                 \A p \in Cells(dem_elevation) :
                    IF dem_elevation[p[1]][p[2]] = ReportedNodata
                    THEN heightmap[p[1]][p[2]] = 0
                    ELSE heightmap[p[1]][p[2]] \in 0..255

\* C9: the transform has pixel_width = (east-west)/cols and
\* pixel_height = (north-south)/rows, both positive, and maps pixel (0,0) to
\* (west, north) and pixel (cols, rows) to (east, south).
C9_Transform ==
    (prog = "hgt" /\ Done("transform")) =>
        /\ FracEq(pixel_width, Frac(east - west, ncols))
        /\ FracEq(pixel_height, Frac(north - south, nrows))
        /\ FracPos(pixel_width) /\ FracPos(pixel_height)
        /\ FracEq(Apply(transform, 0, 0).x, FracOfInt(west))
        /\ FracEq(Apply(transform, 0, 0).y, FracOfInt(north))
        /\ FracEq(Apply(transform, ncols, nrows).x, FracOfInt(east))
        /\ FracEq(Apply(transform, ncols, nrows).y, FracOfInt(south))

C9_Witness ==
    /\ prog = "hgt" /\ Done("transform")
    /\ west = 152 /\ north = -26
    /\ transform.c = FracOfInt(152) /\ transform.f = FracOfInt(-26)

\* C10: the destination is touched only after every earlier statement group
\* has completed; a run that ends with MalformedIdentifier, TruncatedInput or
\* EmptyValidRange stops there with that exception and an untouched
\* destination; the success message is printed only after the write.
C10_WriteLast ==
    /\ (prog = "hgt" /\ dest # "absent") =>
          /\ SubSeq(trace, 1, 6) = SubSeq(HgtSteps, 1, 6)
          /\ pc \in {"raised", "print", "done"}
    /\ (prog = "dem" /\ dest # "absent") =>
          /\ SubSeq(trace, 1, 3) = SubSeq(DemSteps, 1, 3)
          /\ pc \in {"raised", "print", "done"}
    /\ (MalformedIdentifier \/ TruncatedInput \/ EmptyValidRange) =>
          pc = "raised" /\ dest = "absent" /\ ~printed
    /\ err # "none" => pc = "raised" /\ ~printed
    /\ printed => dest = "written" /\ err = "none"

C10_Witness ==
    /\ prog = "hgt" /\ TruncatedInput /\ pc = "raised" /\ dest = "absent"
    /\ Done("read")

=============================================================================
